---- MODULE Spec2Model ----
(***************************************************************************)
(* DynamoDBSessionStore (src/lib/index.ts): the readiness gate, the table  *)
(* provisioner, the session record codec, the CRUD operations and the      *)
(* reaper, together with the part of the DynamoDB service they talk to.    *)
(***************************************************************************)
EXTENDS Integers, Sequences, FiniteSets, TLC

(* ------------------------------ bounds --------------------------------- *)

\* number of operation invocations that can be in progress at once
MaxOps == 2
\* total number of operation invocations in one behaviour
MaxCalls == 2
\* session ids the operations are invoked with: 1..MaxOpIds
MaxOpIds == 3
\* key space of the table: 1..MaxIds (records found in a pre-existing table)
MaxIds == 26
\* the clock stops advancing at MaxNow milliseconds while the provisioner polls
MaxNow == 7000
\* and at MaxIdleNow milliseconds once construction has settled
MaxIdleNow == 2000
\* total number of invocations in a behaviour of operations made one after the other
MaxSeqCalls == 4

(* --------------------------- program constants ------------------------- *)

\* waitUntilTableExists(timeout: number = 6000)
DefaultTimeout == 6000
\* setTimeout(resolve, 1000) between two polls
PollInterval == 1000
\* Math.floor(expireTime / 1000)
MsPerSecond == 1000
\* BatchWriteItem accepts between 1 and 25 write requests
BatchWriteMax == 25

\* granularity of the modelled clock, in milliseconds
ClockStep == PollInterval

(* ------------------------------ JS values ------------------------------ *)

\* a JavaScript value is a pair <<tag, n>>
Null == <<"null", 0>>
Undefined == <<"undefined", 0>>
DateOf(t) == <<"Date", t>>
\* the ISO-8601 string Date.prototype.toJSON produces for the instant t
IsoOf(t) == <<"isostring", t>>
NumberOf(n) == <<"number", n>>

\* the cookie expiry of the records found in a pre-existing table, in milliseconds
PreloadExpiry == 1500

\* cookie expiry instants, in milliseconds since the epoch
Times == {0, PreloadExpiry}

\* values of session.cookie.expires
ExpiresVals == {Null} \cup {DateOf(t) : t \in Times}

\* SessionData: cookie absent, or a cookie with an expires property
NoCookieSession == [hasCookie |-> FALSE, expires |-> Undefined]
CookieSession(e) == [hasCookie |-> TRUE, expires |-> e]
Sessions == {NoCookieSession} \cup {CookieSession(e) : e \in ExpiresVals}

\* the value a JS condition `x ? a : b` tests
Truthy(v) ==
    CASE v[1] = "null" -> FALSE
      [] v[1] = "undefined" -> FALSE
      [] v[1] = "number" -> v[2] # 0
      [] OTHER -> TRUE

\* new Date(v).getTime() for a Date
GetTime(v) == NumberOf(v[2])

\* Math.floor(n / 1000)
Floor1000(n) == NumberOf(n[2] \div MsPerSecond)

\* JSON.stringify(session): the JSON text, held as the tree it denotes;
\* a Date is written through toJSON as its ISO string
JSONstringify(s) ==
    [hasCookie |-> s.hasCookie,
     expires |-> IF s.expires[1] = "Date" THEN IsoOf(s.expires[2]) ELSE s.expires]

\* JSON.parse(text): the tree the text denotes; strings stay strings
JSONparse(doc) == [hasCookie |-> doc.hasCookie, expires |-> doc.expires]

(* ------------------------------- state --------------------------------- *)

VARIABLES
    state,            \* this.state
    onReadyPromises,  \* this.onReadyPromises: the queued resolve functions, by operation
    ctorPc,           \* position of the constructor's promise chain / the provisioner
    ctorErr,          \* the error the provisioner threw ("none" before)
    provRuns,         \* calls of createTableIfNotExists
    createCount,      \* CreateTableCommand requests sent
    ttlUpdates,       \* UpdateTimeToLiveCommand requests sent
    endTime,          \* waitUntilTableExists: startTime + timeout
    wakeAt,           \* waitUntilTableExists: when the pending setTimeout fires
    now,              \* Date.now()
    tableStatus,      \* service: TableStatus, "NONE" when the table does not exist
    ttlStatus,        \* service: TimeToLiveStatus
    ttlAttr,          \* service: TimeToLiveSpecification.AttributeName
    items,            \* service: the table's items under the ids the operations use
    bulk,             \* service: the other keys that hold a record of an earlier run
    ops,              \* the operation invocations in progress, by slot
    calls,            \* invocations made so far
    hist              \* per id: the effect of the last write request on it

vars == <<state, onReadyPromises, ctorPc, ctorErr, provRuns, createCount, ttlUpdates,
          endTime, wakeAt, now, tableStatus, ttlStatus, ttlAttr, items, bulk, ops, calls, hist>>

provVars == <<ctorPc, ctorErr, provRuns, createCount, ttlUpdates, endTime, wakeAt>>
svcVars == <<tableStatus, ttlStatus, ttlAttr, items, bulk>>
gateVars == <<state, onReadyPromises>>

Slots == 1..MaxOps
OpIds == 1..MaxOpIds
Ids == 1..MaxIds

Kinds == {"get", "set", "destroy", "length", "touch", "reap", "all"}

NoItem == [present |-> FALSE, expireTime |-> Null, expireTime_TTL |-> Null,
           session_data |-> JSONstringify(NoCookieSession)]

\* what is known of the record of an id: nothing, the session the last UpdateCommand
\* wrote, or that the last request on it deleted it
NoHist == [tag |-> "unknown", session |-> NoCookieSession]

\* an operation slot with no invocation in it
IdleOp == [kind |-> "none", sid |-> 0, session |-> NoCookieSession, pc |-> "idle",
           queued |-> FALSE, gate |-> "none", gateVal |-> "none", alone |-> FALSE,
           reqs |-> 0, currentTime |-> 0, found |-> {}, expect |-> NoHist,
           cbCount |-> 0, cbErr |-> "none", cbTag |-> "none",
           cbSession |-> NoCookieSession, cbNum |-> 0, cbIds |-> {}, cbThrows |-> FALSE]

(* ------------------------- the DynamoDB service ------------------------ *)

\* errors a provisioning request can fail with besides "not found"
ProvFaults == {"AccessDeniedException"}

\* the error a request on a table that is not there fails with
NotFound == "ResourceNotFoundException"

\* the errors DescribeTableCommand can fail with
DescribeTableErrors ==
    ProvFaults \cup (IF tableStatus = "NONE" THEN {NotFound} ELSE {})

\* the errors DescribeTimeToLiveCommand can fail with
TtlErrors ==
    ProvFaults \cup (IF tableStatus = "NONE" THEN {NotFound} ELSE {})

\* the errors UpdateTimeToLiveCommand can fail with: the TTL of a table that is
\* there can be changed only while the table is ACTIVE
UpdateTtlErrors ==
    TtlErrors \cup (IF tableStatus \notin {"NONE", "ACTIVE"} THEN {"ResourceInUseException"} ELSE {})

\* the errors CreateTableCommand can fail with
CreateTableErrors ==
    ProvFaults \cup (IF tableStatus # "NONE" THEN {"ResourceInUseException"} ELSE {})

\* a data request is served only by an ACTIVE table
TableServes == tableStatus = "ACTIVE"

\* the error a data request on a table that is not ACTIVE fails with
TableError == NotFound

\* BatchWriteItem rejects a request with no or with more than 25 write requests
BatchWriteAccepts(keys) == Cardinality(keys) >= 1 /\ Cardinality(keys) <= BatchWriteMax

\* the item `set` writes for a session: UpdateExpression SET expireTime, expireTime_TTL, session_data
ItemOf(session, expireTime, expireTime_TTL) ==
    [present |-> TRUE, expireTime |-> expireTime, expireTime_TTL |-> expireTime_TTL,
     session_data |-> JSONstringify(session)]

\* the record found in a pre-existing table: written by an earlier set
PreloadItem ==
    ItemOf(CookieSession(DateOf(PreloadExpiry)), NumberOf(PreloadExpiry),
           Floor1000(NumberOf(PreloadExpiry)))

\* the item the table holds under a key
ItemAt(i) ==
    IF i \in OpIds THEN items[i] ELSE IF i \in bulk THEN PreloadItem ELSE NoItem

TtlStatuses == {"DISABLED", "DISABLING", "ENABLING", "ENABLED"}

(* ------------------------------- Init ---------------------------------- *)

\* the state right after `new DynamoDBSessionStore(options)` returns; the table is the
\* service's: absent, there already, or on its way in or out
Init ==
    /\ state = "INITIALIZING"
    /\ onReadyPromises = <<>>
    /\ ctorPc = "start"
    /\ ctorErr = "none"
    /\ provRuns = 0
    /\ createCount = 0
    /\ ttlUpdates = 0
    /\ endTime = 0
    /\ wakeAt = 0
    /\ now = 0
    /\ ops = [o \in Slots |-> IdleOp]
    /\ calls = 0
    /\ hist = [i \in OpIds |-> NoHist]
    /\ \/ /\ tableStatus = "NONE"
          /\ ttlStatus = "DISABLED"
          /\ ttlAttr = "none"
          /\ items = [i \in OpIds |-> NoItem]
          /\ bulk = {}
       \/ /\ tableStatus = "ACTIVE"
          /\ ttlStatus \in TtlStatuses
          /\ ttlAttr = IF ttlStatus = "DISABLED" THEN "none" ELSE "expireTime_TTL"
          /\ items = [i \in OpIds |-> NoItem]
          /\ bulk = {}
       \/ \* the table is being created or deleted by someone else
          /\ tableStatus \in {"CREATING", "DELETING"}
          /\ ttlStatus = "DISABLED"
          /\ ttlAttr = "none"
          /\ items = [i \in OpIds |-> NoItem]
          /\ bulk = {}

\* the same, for a table that is there, ACTIVE with TTL enabled, and holds either
\* nothing or one record under every key
InitData ==
    /\ state = "INITIALIZING"
    /\ onReadyPromises = <<>>
    /\ ctorPc = "start"
    /\ ctorErr = "none"
    /\ provRuns = 0
    /\ createCount = 0
    /\ ttlUpdates = 0
    /\ endTime = 0
    /\ wakeAt = 0
    /\ now = 0
    /\ ops = [o \in Slots |-> IdleOp]
    /\ calls = 0
    /\ hist = [i \in OpIds |-> NoHist]
    /\ tableStatus = "ACTIVE"
    /\ ttlStatus = "ENABLED"
    /\ ttlAttr = "expireTime_TTL"
    /\ \E full \in BOOLEAN :
          /\ items = [i \in OpIds |-> IF full THEN PreloadItem ELSE NoItem]
          /\ bulk = IF full THEN Ids \ OpIds ELSE {}

\* the same, for a table that holds a few records of an earlier run: one under
\* every id the operations use, none elsewhere
InitFew ==
    /\ state = "INITIALIZING"
    /\ onReadyPromises = <<>>
    /\ ctorPc = "start"
    /\ ctorErr = "none"
    /\ provRuns = 0
    /\ createCount = 0
    /\ ttlUpdates = 0
    /\ endTime = 0
    /\ wakeAt = 0
    /\ now = 0
    /\ ops = [o \in Slots |-> IdleOp]
    /\ calls = 0
    /\ hist = [i \in OpIds |-> NoHist]
    /\ tableStatus = "ACTIVE"
    /\ ttlStatus = "ENABLED"
    /\ ttlAttr = "expireTime_TTL"
    /\ items = [i \in OpIds |-> PreloadItem]
    /\ bulk = {}

(* --------------------------- readiness gate ---------------------------- *)

\* what resolve(value) does to the operation whose onReady promise it settles
Released(op, value) ==
    [op EXCEPT !.gate = "resolved", !.gateVal = value, !.pc = "ready"]

\* for (const resolve of this.onReadyPromises) resolve(value)
ReleaseAll(value) ==
    [o \in Slots |->
        IF \E i \in 1..Len(onReadyPromises) : onReadyPromises[i] = o
        THEN Released(ops[o], value)
        ELSE ops[o]]

\* a flush that calls every queued resolve and leaves the queue as it is
resolveAndKeep ==
    /\ ops' = ReleaseAll("undefined")
    /\ onReadyPromises' = onReadyPromises

\* resolveReadyPromises(): every queued resolve is called with no value
resolveReadyPromises ==
    /\ ops' = ReleaseAll("undefined")
    /\ onReadyPromises' = <<>>

\* rejectReadyPromises(error): the queue holds resolve functions only, so every
\* queued promise is RESOLVED, with the error as its value
rejectReadyPromises(error) ==
    /\ ops' = ReleaseAll(error)
    /\ onReadyPromises' = <<>>

(* ---------------------- constructor and provisioner -------------------- *)

\* Promise.resolve().then(() => this.createTableIfNotExists()): the provisioner starts
\* and sends DescribeTableCommand
CtorStart ==
    /\ ctorPc = "start"
    /\ ctorPc' = "describeTable"
    /\ provRuns' = provRuns + 1
    /\ UNCHANGED <<ctorErr, createCount, ttlUpdates, endTime, wakeAt, now, ops, calls, hist>>
    /\ UNCHANGED svcVars
    /\ UNCHANGED gateVars

\* a catch that sends CreateTableCommand whatever the error is
ProvisionCatchAny(error) ==
    /\ ctorPc' = "createTable"
    /\ createCount' = createCount + 1
    /\ UNCHANGED ctorErr

\* createTableIfNotExists: catch (error) around DescribeTableCommand and
\* updateTableTTL(): ResourceNotFoundException sends CreateTableCommand, any other
\* error is logged and thrown again
ProvisionCatch(error) ==
    IF error = NotFound
    THEN /\ ctorPc' = "createTable"
         /\ createCount' = createCount + 1
         /\ UNCHANGED ctorErr
    ELSE /\ ctorPc' = "catch"
         /\ ctorErr' = error
         /\ UNCHANGED createCount

\* createTableIfNotExists: the answer to DescribeTableCommand
DescribeTableDone ==
    /\ ctorPc = "describeTable"
    /\ \/ \* the table exists: updateTableTTL() sends DescribeTimeToLiveCommand
          /\ tableStatus # "NONE"
          /\ ctorPc' = "describeTTL"
          /\ UNCHANGED <<ctorErr, createCount>>
       \/ \E f \in DescribeTableErrors : ProvisionCatch(f)
    /\ UNCHANGED <<provRuns, ttlUpdates, endTime, wakeAt, now, ops, calls, hist>>
    /\ UNCHANGED svcVars
    /\ UNCHANGED gateVars

\* updateTableTTL: the answer to DescribeTimeToLiveCommand
DescribeTTLDone ==
    /\ ctorPc = "describeTTL"
    /\ \/ /\ ttlStatus \in {"DISABLED", "DISABLING"}
          /\ tableStatus # "NONE"
          /\ ctorPc' = "updateTTL"
          /\ ttlUpdates' = ttlUpdates + 1
          /\ UNCHANGED <<ctorErr, createCount>>
       \/ /\ ttlStatus \notin {"DISABLED", "DISABLING"}
          /\ tableStatus # "NONE"
          /\ ctorPc' = "then"
          /\ UNCHANGED <<ctorErr, createCount, ttlUpdates>>
       \/ \* the request fails: console.error, throw error, into the catch of
          \* createTableIfNotExists
          /\ \E f \in TtlErrors : ProvisionCatch(f)
          /\ UNCHANGED ttlUpdates
    /\ UNCHANGED <<provRuns, endTime, wakeAt, now, ops, calls, hist>>
    /\ UNCHANGED svcVars
    /\ UNCHANGED gateVars

\* updateTableTTL: the answer to UpdateTimeToLiveCommand
UpdateTTLDone ==
    /\ ctorPc = "updateTTL"
    /\ \/ /\ tableStatus = "ACTIVE"
          /\ ttlStatus' = "ENABLING"
          /\ ttlAttr' = "expireTime_TTL"
          /\ ctorPc' = "then"
          /\ UNCHANGED <<ctorErr, createCount>>
       \/ /\ \E f \in UpdateTtlErrors : ProvisionCatch(f)
          /\ UNCHANGED <<ttlStatus, ttlAttr>>
    /\ UNCHANGED <<provRuns, ttlUpdates, endTime, wakeAt, now, ops, calls, hist>>
    /\ UNCHANGED <<tableStatus, items, bulk>>
    /\ UNCHANGED gateVars

\* createTableIfNotExists: the answer to CreateTableCommand; on success
\* waitUntilTableExists() starts: endTime is set and the first poll is sent
CreateTableDone ==
    /\ ctorPc = "createTable"
    /\ \/ /\ tableStatus = "NONE"
          /\ tableStatus' = "CREATING"
          /\ endTime' = now + DefaultTimeout
          /\ ctorPc' = "waitDescribe"
          /\ UNCHANGED ctorErr
       \/ /\ \E f \in CreateTableErrors : ctorErr' = f
          /\ ctorPc' = "catch"
          /\ UNCHANGED <<tableStatus, endTime>>
    /\ UNCHANGED <<provRuns, createCount, ttlUpdates, wakeAt, now, ops, calls, hist>>
    /\ UNCHANGED <<ttlStatus, ttlAttr, items, bulk>>
    /\ UNCHANGED gateVars

\* a poll loop that sends CreateTableCommand again when the table is not ACTIVE yet
WaitDescribeRetry ==
    /\ ctorPc = "waitDescribe"
    /\ IF tableStatus = "ACTIVE"
       THEN ctorPc' = "then" /\ UNCHANGED createCount
       ELSE ctorPc' = "createTable" /\ createCount' = createCount + 1
    /\ UNCHANGED <<ctorErr, provRuns, ttlUpdates, endTime, wakeAt, now, ops, calls, hist>>
    /\ UNCHANGED svcVars
    /\ UNCHANGED gateVars

\* waitUntilTableExists: the answer to one poll (DescribeTableCommand)
WaitDescribeDone ==
    /\ ctorPc = "waitDescribe"
    /\ \/ /\ tableStatus = "ACTIVE"
          /\ ctorPc' = "then"
          /\ UNCHANGED <<ctorErr, wakeAt>>
       \/ \* break, then throw new Error(`Timed out waiting for table ...`)
          /\ tableStatus \in {"DELETING", "INACCESSIBLE_ENCRYPTION_CREDENTIALS"}
          /\ ctorPc' = "catch"
          /\ ctorErr' = "Timed out waiting for table"
          /\ UNCHANGED wakeAt
       \/ \* any other status, or the poll failed (catch): sleep one interval;
          \* a poll can fail whatever the table's status is
          /\ ctorPc' = "waitSleep"
          /\ wakeAt' = now + PollInterval
          /\ UNCHANGED ctorErr
    /\ UNCHANGED <<provRuns, createCount, ttlUpdates, endTime, now, ops, calls, hist>>
    /\ UNCHANGED svcVars
    /\ UNCHANGED gateVars

\* a loop that polls again whenever the timer fires, whatever the clock says
WaitWakeNoTimeout ==
    /\ ctorPc = "waitSleep"
    /\ now >= wakeAt
    /\ ctorPc' = "waitDescribe"
    /\ UNCHANGED <<ctorErr, provRuns, createCount, ttlUpdates, endTime, wakeAt, now, ops, calls, hist>>
    /\ UNCHANGED svcVars
    /\ UNCHANGED gateVars

\* waitUntilTableExists: the timer fired; while (Date.now() < endTime) sends the next
\* poll, otherwise the loop ends and the timeout error is thrown
WaitWake ==
    /\ ctorPc = "waitSleep"
    /\ now >= wakeAt
    /\ IF now < endTime
       THEN /\ ctorPc' = "waitDescribe"
            /\ UNCHANGED ctorErr
       ELSE /\ ctorPc' = "catch"
            /\ ctorErr' = "Timed out waiting for table"
    /\ UNCHANGED <<provRuns, createCount, ttlUpdates, endTime, wakeAt, now, ops, calls, hist>>
    /\ UNCHANGED svcVars
    /\ UNCHANGED gateVars

\* a then-handler that throws after it has set the state, so that the catch handler runs
CtorThenThrows ==
    /\ ctorPc = "then"
    /\ state' = "INITIALIZED"
    /\ resolveReadyPromises
    /\ ctorPc' = "catch"
    /\ ctorErr' = "TypeError"
    /\ endTime' = 0 /\ wakeAt' = 0
    /\ UNCHANGED <<provRuns, createCount, ttlUpdates, now, calls, hist>>
    /\ UNCHANGED svcVars

\* .then(() => { this.state = 'INITIALIZED'; this.resolveReadyPromises(); });
\* the locals of waitUntilTableExists are gone by then
CtorThen ==
    /\ ctorPc = "then"
    /\ state' = "INITIALIZED"
    /\ resolveReadyPromises
    /\ ctorPc' = "done"
    /\ endTime' = 0 /\ wakeAt' = 0
    /\ UNCHANGED <<ctorErr, provRuns, createCount, ttlUpdates, now, calls, hist>>
    /\ UNCHANGED svcVars

\* .catch((error) => { this.state = "FAIL"; this.rejectReadyPromises(error); })
CtorCatch ==
    /\ ctorPc = "catch"
    /\ state' = "FAIL"
    /\ rejectReadyPromises(ctorErr)
    /\ ctorPc' = "done"
    /\ endTime' = 0 /\ wakeAt' = 0
    /\ UNCHANGED <<ctorErr, provRuns, createCount, ttlUpdates, now, calls, hist>>
    /\ UNCHANGED svcVars

(* ----------------------------- environment ----------------------------- *)

\* the table being created becomes ACTIVE, or is lost before it does
TableSettles ==
    /\ tableStatus = "CREATING"
    /\ tableStatus' \in {"ACTIVE", "DELETING", "INACCESSIBLE_ENCRYPTION_CREDENTIALS"}
    /\ UNCHANGED <<ttlStatus, ttlAttr, items, bulk, now, ops, calls, hist>>
    /\ UNCHANGED provVars
    /\ UNCHANGED gateVars

\* the table being deleted is gone; no data request was ever served by it
TableGone ==
    /\ tableStatus = "DELETING"
    /\ tableStatus' = "NONE"
    /\ UNCHANGED <<ttlStatus, ttlAttr, items, bulk, now, ops, calls, hist>>
    /\ UNCHANGED provVars
    /\ UNCHANGED gateVars

\* time passes while the poll loop of waitUntilTableExists sleeps: until construction
\* has settled the clock is read by that loop only
Tick ==
    /\ ctorPc = "waitSleep"
    /\ now < MaxNow
    /\ now' = now + ClockStep
    /\ UNCHANGED <<ops, calls, hist>>
    /\ UNCHANGED svcVars
    /\ UNCHANGED provVars
    /\ UNCHANGED gateVars

\* time passes once construction has settled, when reap reads the clock
TickIdle ==
    /\ ctorPc = "done"
    /\ now < MaxIdleNow
    /\ now' = now + ClockStep
    /\ UNCHANGED <<ops, calls, hist>>
    /\ UNCHANGED svcVars
    /\ UNCHANGED provVars
    /\ UNCHANGED gateVars

(* ------------------------- session record codec ------------------------ *)

\* set: session.cookie?.expires ? new Date(session.cookie.expires).getTime() : null
\* (touch reads session.cookie.expires, after which the expression is the same)
ExpireTimeOf(session) ==
    IF session.hasCookie /\ Truthy(session.expires) THEN GetTime(session.expires) ELSE Null

\* expireTime ? Math.floor(expireTime / 1000) : null
ExpireTTLOf(expireTime) ==
    IF Truthy(expireTime) THEN Floor1000(expireTime) ELSE Null

\* an UpdateExpression that does not set session_data from the session
EncodedItemStale(session) ==
    ItemOf(NoCookieSession, ExpireTimeOf(session), ExpireTTLOf(ExpireTimeOf(session)))

\* the item UpdateCommand leaves for a session
EncodedItem(session) ==
    ItemOf(session, ExpireTimeOf(session), ExpireTTLOf(ExpireTimeOf(session)))

(* ------------------------------ operations ----------------------------- *)

InProgress(op) == op.pc \notin {"idle", "done"}

\* callback(err, ...) runs: the operation's callback is invoked and the operation is
\* over, which ends the life of its parameters and locals
Invoked(op, err, tag, sess, num) ==
    [op EXCEPT !.pc = "done", !.cbCount = @ + 1, !.cbErr = err, !.cbTag = tag,
               !.cbSession = sess, !.cbNum = num,
               !.cbIds = IF tag = "map" THEN op.found ELSE {},
               !.session = NoCookieSession, !.found = {}, !.currentTime = 0,
               !.alone = FALSE]

\* the catch block of an operation: callback(error, null) for get, callback(error)
\* otherwise; what this call throws leaves the operation as an unhandled rejection
CallbackError(op, err) ==
    Invoked(op, err, IF op.kind = "get" THEN "null" ELSE "nothing", NoCookieSession, 0)

\* callback(...) inside the try block: when the callback throws, the catch block
\* takes the exception for an error of the operation and calls the callback again
Callback(op, err, tag, sess, num) ==
    IF op.cbThrows
    THEN CallbackError(Invoked(op, err, tag, sess, num), "thrown by the callback")
    ELSE Invoked(op, err, tag, sess, num)

\* onReady() that resolves at once in every state but FAIL
onReadyEager(op) ==
    IF state = "FAIL"
    THEN [op EXCEPT !.gate = "rejected", !.gateVal = "undefined", !.pc = "rejected"]
    ELSE [op EXCEPT !.gate = "resolved", !.gateVal = "undefined", !.pc = "ready"]

\* onReady(): the executor runs at once; the promise is resolved, rejected with no
\* reason, or its resolve function is queued
onReady(op) ==
    IF state = "INITIALIZED"
    THEN [op EXCEPT !.gate = "resolved", !.gateVal = "undefined", !.pc = "ready"]
    ELSE IF state = "FAIL"
    THEN [op EXCEPT !.gate = "rejected", !.gateVal = "undefined", !.pc = "rejected"]
    ELSE [op EXCEPT !.gate = "pending", !.queued = TRUE, !.pc = "waiting"]

\* an operation is invoked, in the first free slot, with a callback that throws when
\* it is called (t) or returns: it runs up to `await this.onReady()`
InvokeWith(o, k, id, s, t) ==
    /\ ~InProgress(ops[o])
    /\ \A p \in Slots : p < o => InProgress(ops[p])
    /\ calls' = calls + 1
    /\ LET others == \E p \in Slots \ {o} : InProgress(ops[p])
           fresh == [IdleOp EXCEPT !.kind = k, !.sid = id, !.session = s, !.alone = ~others,
                                   !.cbThrows = t]
       IN /\ ops' = [p \in Slots |->
                        IF p = o THEN onReady(fresh)
                        ELSE IF InProgress(ops[p]) THEN [ops[p] EXCEPT !.alone = FALSE]
                        ELSE ops[p]]
          /\ onReadyPromises' =
                IF onReady(fresh).pc = "waiting" THEN Append(onReadyPromises, o)
                ELSE onReadyPromises
    /\ UNCHANGED <<state, now, hist>>
    /\ UNCHANGED svcVars
    /\ UNCHANGED provVars

\* an operation is invoked with a callback that returns
Invoke(o, k, id, s) == InvokeWith(o, k, id, s, FALSE)

\* the operations invoked with ids of I, sessions of S and callbacks that throw or not (T)
InvocationsWith(I, S, T) ==
    \E o \in Slots, t \in T :
        \/ \E k \in {"get", "destroy"}, id \in I : InvokeWith(o, k, id, NoCookieSession, t)
        \/ \E k \in {"set", "touch"}, id \in I, s \in S : InvokeWith(o, k, id, s, t)
        \/ \E k \in {"length", "reap", "all"} : InvokeWith(o, k, 0, NoCookieSession, t)

\* the operations invoked with ids of I and sessions of S
Invocations(I, S) == InvocationsWith(I, S, {FALSE})

\* the id and the session the operations carry where neither matters
GateIds == {1}
GateSessions == {CookieSession(DateOf(PreloadExpiry))}

InvokeGate == calls < MaxCalls /\ Invocations(GateIds, GateSessions)

\* the same operations, each with a callback that returns or one that throws
InvokeThrow == calls < MaxCalls /\ InvocationsWith(GateIds, GateSessions, BOOLEAN)

\* the id of the operations on one record: get, set, touch and destroy of different
\* ids do not meet
DataIds == {1}

\* the operations of an INITIALIZED store, with every session
InvokeData == state = "INITIALIZED" /\ calls < MaxCalls /\ Invocations(DataIds, Sessions)

\* the operations that change or count the records of an INITIALIZED store, each
\* invoked once the one before has called back
InvokeSeq ==
    /\ state = "INITIALIZED"
    /\ calls < MaxSeqCalls
    /\ \A p \in Slots : ~InProgress(ops[p])
    /\ \E o \in Slots :
          \/ \E id \in OpIds : Invoke(o, "destroy", id, NoCookieSession)
          \/ \E k \in {"set", "touch"}, id \in OpIds, s \in GateSessions : Invoke(o, k, id, s)
          \/ \E k \in {"length", "reap"} : Invoke(o, k, 0, NoCookieSession)

\* reap of an INITIALIZED store, and set and touch with every session
InvokeReap ==
    /\ state = "INITIALIZED"
    /\ calls < MaxCalls
    /\ \E o \in Slots :
          \/ Invoke(o, "reap", 0, NoCookieSession)
          \/ \E k \in {"set", "touch"}, id \in DataIds, s \in Sessions : Invoke(o, k, id, s)

\* await this.onReady() rejected: the catch block calls back with the rejection's
\* reason, which is undefined
GateRejected(o) ==
    /\ ops[o].pc = "rejected"
    /\ ops' = [ops EXCEPT ![o] = CallbackError(@, ops[o].gateVal)]
    /\ UNCHANGED <<calls, now, hist>>
    /\ UNCHANGED svcVars
    /\ UNCHANGED provVars
    /\ UNCHANGED gateVars

\* the attribute of the item get decodes: getResult.Item.session_data
GetDecoded(item) == JSONparse(item.session_data)

\* get: GetCommand and the callback
GetStep(o) ==
    /\ ops[o].pc = "ready"
    /\ ops[o].kind = "get"
    /\ LET op == [ops[o] EXCEPT !.reqs = @ + 1, !.expect = hist[ops[o].sid]]
           item == items[op.sid]
       IN ops' = [ops EXCEPT ![o] =
                    IF ~TableServes THEN CallbackError(op, TableError)
                    ELSE IF item.present
                    THEN Callback(op, "null", "session", GetDecoded(item), 0)
                    ELSE Callback(op, "null", "null", NoCookieSession, 0)]
    /\ UNCHANGED <<calls, now, hist>>
    /\ UNCHANGED svcVars
    /\ UNCHANGED provVars
    /\ UNCHANGED gateVars

\* an update in two requests: the record that is there is deleted first, and the
\* new one is put by a later step
DeleteThenPut(o) ==
    LET op == [ops[o] EXCEPT !.reqs = @ + 1]
    IN IF items[op.sid].present /\ op.found = {}
       THEN /\ items' = [items EXCEPT ![op.sid] = NoItem]
            /\ ops' = [ops EXCEPT ![o] = [op EXCEPT !.found = {op.sid}]]
            /\ UNCHANGED hist
       ELSE /\ items' = [items EXCEPT ![op.sid] = EncodedItem(op.session)]
            /\ hist' = [hist EXCEPT ![op.sid] = [tag |-> "written", session |-> op.session]]
            /\ ops' = [ops EXCEPT ![o] = Callback(op, "undefined", "nothing", NoCookieSession, 0)]

\* UpdateCommand for (sid, session) takes effect, and callback?.()
UpdateAndCallback(o) ==
    LET op == [ops[o] EXCEPT !.reqs = @ + 1]
    IN IF TableServes
       THEN /\ items' = [items EXCEPT ![op.sid] = EncodedItem(op.session)]
            /\ hist' = [hist EXCEPT ![op.sid] = [tag |-> "written", session |-> op.session]]
            /\ ops' = [ops EXCEPT ![o] = Callback(op, "undefined", "nothing", NoCookieSession, 0)]
       ELSE /\ ops' = [ops EXCEPT ![o] = CallbackError(op, TableError)]
            /\ UNCHANGED <<items, hist>>

\* set: the expiry fields, UpdateCommand and the callback
SetStep(o) ==
    /\ ops[o].pc = "ready"
    /\ ops[o].kind = "set"
    /\ UpdateAndCallback(o)
    /\ UNCHANGED <<calls, now, tableStatus, ttlStatus, ttlAttr, bulk>>
    /\ UNCHANGED provVars
    /\ UNCHANGED gateVars

\* touch: session.cookie.expires throws a TypeError when the session has no cookie;
\* otherwise the expiry fields, UpdateCommand and the callback
TouchStep(o) ==
    /\ ops[o].pc = "ready"
    /\ ops[o].kind = "touch"
    /\ IF ops[o].session.hasCookie
       THEN UpdateAndCallback(o)
       ELSE /\ ops' = [ops EXCEPT ![o] = CallbackError(@, "TypeError")]
            /\ UNCHANGED <<items, hist>>
    /\ UNCHANGED <<calls, now, tableStatus, ttlStatus, ttlAttr, bulk>>
    /\ UNCHANGED provVars
    /\ UNCHANGED gateVars

\* a destroy that reports success when it finds no item
DestroyNotFoundSilent(op) == Invoked(op, "undefined", "nothing", NoCookieSession, 0)

\* destroy: what follows the GetCommand when no item is found
DestroyNotFound(op) == Callback(op, "Not found session ID", "nothing", NoCookieSession, 0)

\* destroy: GetCommand; with no item the callback gets the 'not found' error
DestroyGet(o) ==
    /\ ops[o].pc = "ready"
    /\ ops[o].kind = "destroy"
    /\ LET op == [ops[o] EXCEPT !.reqs = @ + 1]
       IN ops' = [ops EXCEPT ![o] =
                    IF ~TableServes THEN CallbackError(op, TableError)
                    ELSE IF items[op.sid].present
                    THEN [op EXCEPT !.pc = "destroyDelete", !.found = {op.sid}]
                    ELSE DestroyNotFound(op)]
    /\ UNCHANGED <<calls, now, hist>>
    /\ UNCHANGED svcVars
    /\ UNCHANGED provVars
    /\ UNCHANGED gateVars

\* destroy: this.client.delete and the callback
DestroyDelete(o) ==
    /\ ops[o].pc = "destroyDelete"
    /\ LET op == [ops[o] EXCEPT !.reqs = @ + 1]
       IN IF TableServes
          THEN /\ items' = [items EXCEPT ![op.sid] = NoItem]
               /\ hist' = [hist EXCEPT ![op.sid] = [tag |-> "deleted", session |-> NoCookieSession]]
               /\ ops' = [ops EXCEPT ![o] = Callback(op, "undefined", "nothing", NoCookieSession, 0)]
          ELSE /\ ops' = [ops EXCEPT ![o] = CallbackError(op, TableError)]
               /\ UNCHANGED <<items, hist>>
    /\ UNCHANGED <<calls, now, tableStatus, ttlStatus, ttlAttr, bulk>>
    /\ UNCHANGED provVars
    /\ UNCHANGED gateVars

\* a scan that returns only the items under the ids this store has used
ScanOwn == {i \in OpIds : items[i].present}

\* the ids of the items a scan of the whole table returns
ScanAll == {i \in Ids : ItemAt(i).present}

\* length: scan and callback(null, result.Items?.length || 0)
LengthStep(o) ==
    /\ ops[o].pc = "ready"
    /\ ops[o].kind = "length"
    /\ LET op == [ops[o] EXCEPT !.reqs = @ + 1]
       IN ops' = [ops EXCEPT ![o] =
                    IF ~TableServes THEN CallbackError(op, TableError)
                    ELSE Callback(op, "null", "count", NoCookieSession, Cardinality(ScanAll))]
    /\ UNCHANGED <<calls, now, hist>>
    /\ UNCHANGED svcVars
    /\ UNCHANGED provVars
    /\ UNCHANGED gateVars

\* all: scan, JSON.parse of every item's session_data, callback(null, sessions)
AllStep(o) ==
    /\ ops[o].pc = "ready"
    /\ ops[o].kind = "all"
    /\ LET op == [ops[o] EXCEPT !.reqs = @ + 1]
       IN ops' = [ops EXCEPT ![o] =
                    IF ~TableServes THEN CallbackError(op, TableError)
                    ELSE Callback([op EXCEPT !.found = ScanAll], "null", "map", NoCookieSession, 0)]
    /\ UNCHANGED <<calls, now, hist>>
    /\ UNCHANGED svcVars
    /\ UNCHANGED provVars
    /\ UNCHANGED gateVars

\* FilterExpression '#expireTime < :currentTime': a null expireTime matches nothing
Expired(item, currentTime) ==
    item.present /\ item.expireTime[1] = "number" /\ item.expireTime[2] < currentTime

\* reap: currentTime = Date.now() and the filtered scan
ReapScan(o) ==
    /\ ops[o].pc = "ready"
    /\ ops[o].kind = "reap"
    /\ LET op == [ops[o] EXCEPT !.reqs = @ + 1, !.currentTime = now]
       IN ops' = [ops EXCEPT ![o] =
                    IF ~TableServes THEN CallbackError(op, TableError)
                    ELSE [op EXCEPT !.pc = "reapBatch",
                                    !.found = {i \in Ids : Expired(ItemAt(i), now)}]]
    /\ UNCHANGED <<calls, now, hist>>
    /\ UNCHANGED svcVars
    /\ UNCHANGED provVars
    /\ UNCHANGED gateVars

\* the delete requests reap puts in its one batchWrite: one per scanned item
DeleteRequests(op) == op.found

\* reap: this.client.batchWrite with every delete request, and the callback
ReapBatch(o) ==
    /\ ops[o].pc = "reapBatch"
    /\ LET op == [ops[o] EXCEPT !.reqs = @ + 1]
           keys == DeleteRequests(op)
       IN IF TableServes /\ BatchWriteAccepts(keys)
          THEN /\ items' = [i \in OpIds |-> IF i \in keys THEN NoItem ELSE items[i]]
               /\ bulk' = bulk \ keys
               /\ hist' = [i \in OpIds |->
                             IF i \in keys THEN [tag |-> "deleted", session |-> NoCookieSession]
                             ELSE hist[i]]
               /\ ops' = [ops EXCEPT ![o] = Callback(op, "undefined", "nothing", NoCookieSession, 0)]
          ELSE /\ ops' = [ops EXCEPT ![o] =
                            CallbackError(op, IF TableServes THEN "ValidationException"
                                              ELSE TableError)]
               /\ UNCHANGED <<items, bulk, hist>>
    /\ UNCHANGED <<calls, now, tableStatus, ttlStatus, ttlAttr>>
    /\ UNCHANGED provVars
    /\ UNCHANGED gateVars

(* ------------- the delete-then-recreate variant (part_001) ------------- *)

\* the variant after its constructor's createTableIfNotExists() has found the table
\* ACTIVE with TTL enabled; it has no gate, so its operations start as those of a
\* store whose gate is open
InitVariant ==
    /\ state = "INITIALIZED"
    /\ onReadyPromises = <<>>
    /\ ctorPc = "done"
    /\ ctorErr = "none"
    /\ provRuns = 1
    /\ createCount = 0
    /\ ttlUpdates = 0
    /\ endTime = 0
    /\ wakeAt = 0
    /\ now = 0
    /\ ops = [o \in Slots |-> IdleOp]
    /\ calls = 0
    /\ hist = [i \in OpIds |-> NoHist]
    /\ tableStatus = "ACTIVE"
    /\ ttlStatus = "ENABLED"
    /\ ttlAttr = "expireTime_TTL"
    /\ \E full \in BOOLEAN :
          /\ items = [i \in OpIds |-> IF full THEN PreloadItem ELSE NoItem]
          /\ bulk = IF full THEN Ids \ OpIds ELSE {}

\* set and touch of the variant are invoked
InvokeVariant ==
    /\ calls < MaxCalls
    /\ \E o \in Slots, k \in {"set", "touch"}, id \in DataIds, s \in Sessions : Invoke(o, k, id, s)

\* set / touch of the variant: the expiry fields (touch throws a TypeError when the
\* session has no cookie), then the answer to GetCommand: with an item, delete and put
\* are both sent at once (Promise.all); with none, set sends put and touch calls back
VariantGet(o) ==
    /\ ops[o].pc = "ready"
    /\ ops[o].kind \in {"set", "touch"}
    /\ LET op == [ops[o] EXCEPT !.reqs = @ + 1]
       IN ops' = [ops EXCEPT ![o] =
                    IF op.kind = "touch" /\ ~op.session.hasCookie
                    THEN CallbackError(ops[o], "TypeError")
                    ELSE IF ~TableServes THEN CallbackError(op, TableError)
                    ELSE IF items[op.sid].present
                    THEN [op EXCEPT !.pc = "variantBoth", !.found = {op.sid}, !.reqs = @ + 2]
                    ELSE IF op.kind = "set"
                    THEN [op EXCEPT !.pc = "variantPut", !.reqs = @ + 1]
                    ELSE Callback(op, "undefined", "nothing", NoCookieSession, 0)]
    /\ UNCHANGED <<calls, now, hist>>
    /\ UNCHANGED svcVars
    /\ UNCHANGED provVars
    /\ UNCHANGED gateVars

\* this.client.delete of the variant takes effect; the operation calls back when the
\* put has taken effect too
VariantDelete(o) ==
    /\ ops[o].pc \in {"variantBoth", "variantDelete"}
    /\ items' = [items EXCEPT ![ops[o].sid] = NoItem]
    /\ hist' = [hist EXCEPT ![ops[o].sid] = [tag |-> "deleted", session |-> NoCookieSession]]
    /\ ops' = [ops EXCEPT ![o] =
                 IF ops[o].pc = "variantBoth" THEN [@ EXCEPT !.pc = "variantPut"]
                 ELSE Callback(@, "undefined", "nothing", NoCookieSession, 0)]
    /\ UNCHANGED <<calls, now, tableStatus, ttlStatus, ttlAttr, bulk>>
    /\ UNCHANGED provVars
    /\ UNCHANGED gateVars

\* this.client.put of the variant takes effect; the operation calls back when the
\* delete, if one was sent, has taken effect too
VariantPut(o) ==
    /\ ops[o].pc \in {"variantBoth", "variantPut"}
    /\ items' = [items EXCEPT ![ops[o].sid] = EncodedItem(ops[o].session)]
    /\ hist' = [hist EXCEPT ![ops[o].sid] = [tag |-> "written", session |-> ops[o].session]]
    /\ ops' = [ops EXCEPT ![o] =
                 IF ops[o].pc = "variantBoth" THEN [@ EXCEPT !.pc = "variantDelete"]
                 ELSE Callback(@, "undefined", "nothing", NoCookieSession, 0)]
    /\ UNCHANGED <<calls, now, tableStatus, ttlStatus, ttlAttr, bulk>>
    /\ UNCHANGED provVars
    /\ UNCHANGED gateVars

(* ---------------------------- specification ---------------------------- *)

Next ==
    \/ CtorStart
    \/ DescribeTableDone
    \/ DescribeTTLDone
    \/ UpdateTTLDone
    \/ CreateTableDone
    \/ WaitDescribeDone
    \/ WaitWake
    \/ CtorThen
    \/ CtorCatch
    \/ TableSettles
    \/ TableGone
    \/ Tick
    \/ InvokeGate
    \/ \E o \in Slots : GateRejected(o)
    \/ \E o \in Slots : GetStep(o)
    \/ \E o \in Slots : SetStep(o)
    \/ \E o \in Slots : TouchStep(o)
    \/ \E o \in Slots : DestroyGet(o)
    \/ \E o \in Slots : DestroyDelete(o)
    \/ \E o \in Slots : LengthStep(o)
    \/ \E o \in Slots : AllStep(o)
    \/ \E o \in Slots : ReapScan(o)
    \/ \E o \in Slots : ReapBatch(o)

Spec == Init /\ [][Next]_vars

\* the whole store, with callbacks that can throw
NextThrow ==
    \/ CtorStart
    \/ DescribeTableDone
    \/ DescribeTTLDone
    \/ UpdateTTLDone
    \/ CreateTableDone
    \/ WaitDescribeDone
    \/ WaitWake
    \/ CtorThen
    \/ CtorCatch
    \/ TableSettles
    \/ TableGone
    \/ Tick
    \/ InvokeThrow
    \/ \E o \in Slots : GateRejected(o)
    \/ \E o \in Slots : GetStep(o)
    \/ \E o \in Slots : SetStep(o)
    \/ \E o \in Slots : TouchStep(o)
    \/ \E o \in Slots : DestroyGet(o)
    \/ \E o \in Slots : DestroyDelete(o)
    \/ \E o \in Slots : LengthStep(o)
    \/ \E o \in Slots : AllStep(o)
    \/ \E o \in Slots : ReapScan(o)
    \/ \E o \in Slots : ReapBatch(o)

SpecThrow == Init /\ [][NextThrow]_vars

\* the steps of the constructor's promise chain: each runs once the request or the
\* timer it waits for has answered
Provision ==
    \/ CtorStart
    \/ DescribeTableDone
    \/ DescribeTTLDone
    \/ UpdateTTLDone
    \/ CreateTableDone
    \/ WaitDescribeDone
    \/ WaitWake
    \/ CtorThen
    \/ CtorCatch

\* every storage request of the provisioner is answered, its timers fire and its
\* handlers run, and the clock advances
SpecLive == Spec /\ WF_vars(Provision) /\ WF_vars(Tick)

\* an INITIALIZED store on a table that is there: the operations with every session payload
NextData ==
    \/ CtorStart
    \/ DescribeTableDone
    \/ DescribeTTLDone
    \/ CtorThen
    \/ CtorCatch
    \/ TickIdle
    \/ InvokeData
    \/ \E o \in Slots : GetStep(o)
    \/ \E o \in Slots : SetStep(o)
    \/ \E o \in Slots : TouchStep(o)
    \/ \E o \in Slots : DestroyGet(o)
    \/ \E o \in Slots : DestroyDelete(o)
    \/ \E o \in Slots : LengthStep(o)
    \/ \E o \in Slots : AllStep(o)
    \/ \E o \in Slots : ReapScan(o)
    \/ \E o \in Slots : ReapBatch(o)

SpecData == InitData /\ [][NextData]_vars

\* an INITIALIZED store on a table that is there: writes, deletes and counts, one
\* after the other, over several ids
NextSeq ==
    \/ CtorStart
    \/ DescribeTableDone
    \/ DescribeTTLDone
    \/ CtorThen
    \/ CtorCatch
    \/ TickIdle
    \/ InvokeSeq
    \/ \E o \in Slots : SetStep(o)
    \/ \E o \in Slots : TouchStep(o)
    \/ \E o \in Slots : DestroyGet(o)
    \/ \E o \in Slots : DestroyDelete(o)
    \/ \E o \in Slots : LengthStep(o)
    \/ \E o \in Slots : ReapScan(o)
    \/ \E o \in Slots : ReapBatch(o)

SpecSeq == InitData /\ [][NextSeq]_vars

\* an INITIALIZED store on a table with a few records: reap next to set and touch
NextReap ==
    \/ CtorStart
    \/ DescribeTableDone
    \/ DescribeTTLDone
    \/ CtorThen
    \/ CtorCatch
    \/ TickIdle
    \/ InvokeReap
    \/ \E o \in Slots : SetStep(o)
    \/ \E o \in Slots : TouchStep(o)
    \/ \E o \in Slots : ReapScan(o)
    \/ \E o \in Slots : ReapBatch(o)

SpecReap == InitFew /\ [][NextReap]_vars

\* set and touch of the delete-then-recreate variant
NextVariant ==
    \/ InvokeVariant
    \/ \E o \in Slots : VariantGet(o)
    \/ \E o \in Slots : VariantDelete(o)
    \/ \E o \in Slots : VariantPut(o)

SpecVariant == InitVariant /\ [][NextVariant]_vars

(* ------------------------------- claims -------------------------------- *)

\* C1: when provisioning has failed, every operation whose onReady call was queued
\* while the state was INITIALIZING has issued no storage request, and once it has
\* called back, the error it reported is the provisioning error.
C1_QueuedFailTogether ==
    \A o \in Slots :
        (state = "FAIL" /\ ops[o].queued) =>
            /\ ops[o].reqs = 0
            /\ ops[o].pc = "done" => ops[o].cbErr = ctorErr

\* C2: an operation invoked in state FAIL issues no storage request and hands its
\* callback a non-empty error equal to the provisioner's error.
C2_FailedGateReportsError ==
    \A o \in Slots :
        (ops[o].gate = "rejected" /\ ops[o].pc = "done") =>
            /\ ops[o].reqs = 0
            /\ ops[o].cbErr \notin {"undefined", "null"}
            /\ ops[o].cbErr = ctorErr

\* C3: while the state is INITIALIZING every invoked operation waits at the gate, having
\* issued no storage request and made no callback; and the operations that were queued
\* all get the same gate outcome, none of them staying pending once the state has settled.
C3_QueuedWaitAndShareOutcome ==
    /\ state = "INITIALIZING" =>
          \A o \in Slots :
              /\ ops[o].pc \in {"idle", "waiting"}
              /\ ops[o].reqs = 0
              /\ ops[o].cbCount = 0
    /\ state # "INITIALIZING" =>
          \A o, p \in Slots :
              (ops[o].queued /\ ops[p].queued) =>
                  /\ ops[o].gate # "pending"
                  /\ ops[o].gate = ops[p].gate
                  /\ ops[o].gateVal = ops[p].gateVal

\* two operations were queued, provisioning failed, and both have been released
C3_Witness ==
    /\ state = "FAIL"
    /\ \E o, p \in Slots :
          /\ o # p
          /\ ops[o].queued /\ ops[p].queued
          /\ ops[o].pc = "done"
          /\ ops[p].gate = "resolved"

\* C4: the state starts as INITIALIZING (Init) and every step either leaves it as it
\* is or takes it from INITIALIZING to INITIALIZED or FAIL.
C4_StateSettlesOnce ==
    [][\/ state' = state
       \/ state = "INITIALIZING" /\ state' \in {"INITIALIZED", "FAIL"}]_vars

\* the state has settled and an operation invoked after that has run to its callback
C4_Witness ==
    /\ state \in {"INITIALIZED", "FAIL"}
    /\ \E o \in Slots : ops[o].pc = "done" /\ ~ops[o].queued

\* C5: whenever the state is INITIALIZED the table is ACTIVE and its TTL on
\* expireTime_TTL is enabled or being enabled.
C5_InitializedTableReady ==
    state = "INITIALIZED" =>
        /\ tableStatus = "ACTIVE"
        /\ ttlStatus \in {"ENABLED", "ENABLING"}
        /\ ttlAttr = "expireTime_TTL"

\* C6: createTableIfNotExists is called once, as soon as the constructor's chain
\* starts, and never again; at most one CreateTableCommand is sent.
C6_ProvisionerOnce ==
    /\ provRuns <= 1
    /\ ctorPc # "start" => provRuns = 1
    /\ createCount <= 1

\* the table was created, and an operation queued meanwhile has run to its callback
C6_Witness ==
    /\ createCount = 1
    /\ state # "INITIALIZING"
    /\ \E o \in Slots : ops[o].queued /\ ops[o].pc = "done"

\* the get of an INITIALIZED store whose GetCommand read the record an UpdateCommand
\* of set or touch wrote last
GetAfterWrite(o) ==
    /\ state = "INITIALIZED"
    /\ ops[o].kind = "get"
    /\ ops[o].pc = "done"
    /\ ops[o].expect.tag = "written"

\* C7 as claimed: set(id, s) followed by get(id), with no write to id in between, yields
\* a session equal to s and no error.
C7_RoundTripIdentity ==
    \A o \in Slots :
        GetAfterWrite(o) =>
            /\ ops[o].cbErr = "null"
            /\ ops[o].cbTag = "session"
            /\ ops[o].cbSession = ops[o].expect.session

\* C7 as amended: the get yields, with no error, JSON.parse(JSON.stringify(s)); that is s
\* itself unless s holds a Date, which comes back as its ISO string.
C7_RoundTripJSON ==
    \A o \in Slots :
        GetAfterWrite(o) =>
            /\ ops[o].cbErr = "null"
            /\ ops[o].cbTag = "session"
            /\ ops[o].cbSession = JSONparse(JSONstringify(ops[o].expect.session))
            /\ ops[o].expect.session.expires[1] # "Date" =>
                  ops[o].cbSession = ops[o].expect.session
            /\ ops[o].expect.session.expires[1] = "Date" =>
                  ops[o].cbSession.expires = IsoOf(ops[o].expect.session.expires[2])

\* a get has read back a session that was set with a Date as its cookie expiry
C7_Witness ==
    \E o \in Slots : GetAfterWrite(o) /\ ops[o].expect.session.expires[1] = "Date"

\* C8: in every record, expireTime_TTL is null exactly when expireTime is null;
\* otherwise expireTime_TTL is floor(expireTime / 1000), and a record whose session has
\* a cookie expiry holds that instant as its expireTime.
C8_ExpiryFieldsAgree ==
    \A i \in Ids :
        ItemAt(i).present =>
            /\ (ItemAt(i).expireTime_TTL = Null) <=> (ItemAt(i).expireTime = Null)
            /\ ItemAt(i).expireTime # Null =>
                  ItemAt(i).expireTime_TTL = NumberOf(ItemAt(i).expireTime[2] \div MsPerSecond)
            /\ ItemAt(i).session_data.expires[1] = "isostring" =>
                  ItemAt(i).expireTime = NumberOf(ItemAt(i).session_data.expires[2])

\* C9: a reap of an INITIALIZED store that runs with no other operation deletes, with
\* its batchWrite, exactly the records whose expireTime is less than its currentTime
\* (so a reap that finds nothing expired deletes nothing).
C9_ReapDeletesExpired ==
    [][\A o \in Slots :
          (/\ state = "INITIALIZED"
           /\ ops[o].alone
           /\ ops[o].pc = "reapBatch"
           /\ ops'[o].pc = "done") =>
              /\ items' = [i \in OpIds |->
                             IF Expired(items[i], ops[o].currentTime) THEN NoItem ELSE items[i]]
              /\ bulk' = {i \in bulk : ~Expired(PreloadItem, ops[o].currentTime)}]_vars

\* C10: in an INITIALIZED store, destroy(id) finding no record calls back with the
\* 'not found' error and changes nothing; destroy(id) finding a record removes it,
\* leaves the other records alone and calls back without error; and a get that reads
\* the id after the delete, with no write in between, yields no error and no session.
C10_Destroy ==
    /\ [][\A o \in Slots :
            (state = "INITIALIZED" /\ ops[o].kind = "destroy") =>
                /\ (ops[o].pc = "ready" /\ ops'[o].pc # "ready") =>
                      /\ items' = items /\ bulk' = bulk
                      /\ IF items[ops[o].sid].present
                         THEN ops'[o].pc = "destroyDelete" /\ ops'[o].cbCount = 0
                         ELSE /\ ops'[o].pc = "done"
                              /\ ops'[o].cbCount = 1
                              /\ ops'[o].cbErr = "Not found session ID"
                /\ (ops[o].pc = "destroyDelete" /\ ops'[o].pc # "destroyDelete") =>
                      /\ items' = [items EXCEPT ![ops[o].sid] = NoItem] /\ bulk' = bulk
                      /\ ops'[o].pc = "done"
                      /\ ops'[o].cbCount = 1
                      /\ ops'[o].cbErr = "undefined"]_vars
    /\ [](\A o \in Slots :
            (/\ state = "INITIALIZED"
             /\ ops[o].kind = "get"
             /\ ops[o].pc = "done"
             /\ ops[o].expect.tag = "deleted") =>
                /\ ops[o].cbErr = "null"
                /\ ops[o].cbTag = "null")

\* a destroy has removed a record and called back without error, and a get that
\* read the id afterwards has called back
C10_Witness ==
    /\ state = "INITIALIZED"
    /\ \E o, p \in Slots :
          /\ ops[o].kind = "destroy" /\ ops[o].pc = "done" /\ ops[o].cbErr = "undefined"
          /\ ops[p].kind = "get" /\ ops[p].pc = "done" /\ ops[p].expect.tag = "deleted"
          /\ ops[o].sid = ops[p].sid

\* C11: in an INITIALIZED store, touch(id, session) with a session that has a cookie
\* leaves a record under the same id and no other record changed, with expireTime the
\* cookie's expiry in milliseconds, or null when the cookie has none, and
\* expireTime_TTL null exactly when expireTime is null and floor(expireTime / 1000)
\* otherwise, whatever expiry the record held before.
C11_TouchRefreshesExpiry ==
    [][\A o \in Slots :
          (/\ state = "INITIALIZED"
           /\ ops[o].kind = "touch"
           /\ ops[o].session.hasCookie
           /\ ops[o].pc = "ready"
           /\ ops'[o].pc = "done") =>
              LET s == ops[o].session
                  e == IF s.expires[1] = "Date" THEN NumberOf(s.expires[2]) ELSE Null
              IN /\ items'[ops[o].sid].present
                 /\ \A i \in OpIds \ {ops[o].sid} : items'[i] = items[i]
                 /\ bulk' = bulk
                 /\ items'[ops[o].sid].expireTime = e
                 /\ items'[ops[o].sid].expireTime_TTL =
                       IF e = Null THEN Null ELSE NumberOf(e[2] \div MsPerSecond)]_vars

\* C12: in an INITIALIZED store whose operations run one after the other, a record
\* is there under every id whose last completed write was a set or touch and under no
\* id whose last completed write was a destroy or reap, and length() calls back with
\* no error and the number of ids that hold a record (0 on an empty table, 3 after
\* three sets with distinct ids).
C12_LengthCountsRecords ==
    /\ \A i \in OpIds :
          /\ hist[i].tag = "written" => items[i].present
          /\ hist[i].tag = "deleted" => ~items[i].present
    /\ \A o \in Slots :
          (state = "INITIALIZED" /\ ops[o].kind = "length" /\ ops[o].pc = "done") =>
              /\ ops[o].cbErr = "null"
              /\ ops[o].cbTag = "count"
              /\ ops[o].cbNum = Cardinality({i \in Ids : ItemAt(i).present})
              /\ ops[o].cbNum >= Cardinality({i \in OpIds : hist[i].tag = "written"})
              /\ ops[o].cbNum <= MaxIds - Cardinality({i \in OpIds : hist[i].tag = "deleted"})

\* three sets with distinct ids on an empty table, then length() has called back with 3
C12_Witness ==
    /\ bulk = {}
    /\ Cardinality({i \in OpIds : hist[i].tag = "written"}) = 3
    /\ \E o \in Slots : ops[o].kind = "length" /\ ops[o].pc = "done" /\ ops[o].cbNum = 3

\* C13: the queue holds, once each, exactly the operations whose onReady promise is
\* pending; a pending promise is settled only by the step that takes the state out
\* of INITIALIZING, and that step settles every pending promise and empties the
\* queue; so whenever the state is INITIALIZED or FAIL the queue is empty and no
\* onReady promise is pending.
C13_WaitersFlushedOnSettle ==
    /\ [][\A o \in Slots :
            /\ (ops[o].gate = "pending" /\ ops'[o].gate # "pending") =>
                  /\ state = "INITIALIZING" /\ state' # "INITIALIZING"
                  /\ ops'[o].gate = "resolved"
                  /\ ops'[o].pc = "ready"
            /\ (state = "INITIALIZING" /\ state' # "INITIALIZING") =>
                  /\ ops[o].gate = "pending" => ops'[o].gate = "resolved"
                  /\ onReadyPromises' = <<>>]_vars
    /\ [](\A o \in Slots :
            Cardinality({i \in 1..Len(onReadyPromises) : onReadyPromises[i] = o})
                = IF ops[o].gate = "pending" THEN 1 ELSE 0)
    /\ [](state \in {"INITIALIZED", "FAIL"} =>
            /\ onReadyPromises = <<>>
            /\ \A o \in Slots : ops[o].gate # "pending")

\* two operations were queued and provisioning succeeded: both are released and the
\* queue is empty
C13_Witness ==
    /\ state = "INITIALIZED"
    /\ onReadyPromises = <<>>
    /\ \E o, p \in Slots :
          /\ o # p
          /\ ops[o].queued /\ ops[p].queued
          /\ ops[o].gate = "resolved" /\ ops[p].gate = "resolved"

\* C14: every batchWrite request reap has sent carries between 1 and 25 delete
\* keys, and a reap of an INITIALIZED store whose scan matches no record sends no
\* batchWrite and calls back without error.
C14_ReapBatchesWithinLimit ==
    /\ [](\A o \in Slots :
            ops[o].pc = "reapBatch" =>
                /\ Cardinality(DeleteRequests(ops[o])) >= 1
                /\ Cardinality(DeleteRequests(ops[o])) <= BatchWriteMax)
    /\ [][\A o \in Slots :
            (/\ state = "INITIALIZED"
             /\ ops[o].kind = "reap"
             /\ ops[o].pc = "ready"
             /\ ops'[o].pc # "ready"
             /\ {i \in Ids : Expired(ItemAt(i), now)} = {}) =>
                /\ ops'[o].pc = "done"
                /\ ops'[o].cbErr = "undefined"]_vars

\* C15: a first describe that reports 'not found' is followed by CreateTableCommand
\* and the poll loop with its deadline DefaultTimeout after its start; a poll ends
\* the loop for INITIALIZED only when it sees ACTIVE and for FAIL only when it sees
\* DELETING or INACCESSIBLE_ENCRYPTION_CREDENTIALS; after a sleep the next poll is sent
\* only while the clock is before the deadline, and otherwise the loop ends for FAIL;
\* and when every request is answered and the clock advances, the state eventually
\* leaves INITIALIZING.
C15_CreateAndPoll ==
    /\ [][/\ (ctorPc = "describeTable" /\ tableStatus = "NONE" /\ ctorPc' \notin {ctorPc, "catch"}) =>
                (ctorPc' = "createTable" /\ createCount' = createCount + 1)
          /\ (ctorPc = "createTable" /\ ctorPc' \notin {ctorPc, "catch"}) =>
                (ctorPc' = "waitDescribe" /\ endTime' = now + DefaultTimeout)
          /\ (ctorPc = "waitDescribe" /\ ctorPc' # ctorPc) =>
                \/ ctorPc' = "then" /\ tableStatus = "ACTIVE"
                \/ /\ ctorPc' = "catch"
                   /\ tableStatus \in {"DELETING", "INACCESSIBLE_ENCRYPTION_CREDENTIALS"}
                \/ ctorPc' = "waitSleep" /\ wakeAt' = now + PollInterval
          /\ (ctorPc = "waitSleep" /\ ctorPc' # ctorPc) =>
                /\ now >= wakeAt
                /\ IF now < endTime THEN ctorPc' = "waitDescribe" ELSE ctorPc' = "catch"
          /\ (ctorPc = "then" /\ ctorPc' # ctorPc) => state' = "INITIALIZED"
          /\ (ctorPc = "catch" /\ ctorPc' # ctorPc) => state' = "FAIL"]_vars
    /\ <>(state # "INITIALIZING")

\* the table was created and stayed CREATING: the poll loop ran into its deadline
\* and the store is in state FAIL
C15_Witness ==
    /\ state = "FAIL"
    /\ createCount = 1
    /\ tableStatus = "CREATING"
    /\ ctorErr = "Timed out waiting for table"
    /\ now >= DefaultTimeout

\* C16: in an INITIALIZED store, touch(id, session) does what set(id, session) does from
\* the same state, for every session (a cookie with an expiry, a cookie without one,
\* no cookie): it leaves under id the record set writes, changes no other record, and
\* calls back as set does, without error.
C16_TouchAsSet ==
    [][\A o \in Slots :
          (/\ state = "INITIALIZED"
           /\ TableServes
           /\ ops[o].kind = "touch"
           /\ ops[o].pc = "ready"
           /\ ops'[o].pc # "ready") =>
              /\ items' = [items EXCEPT ![ops[o].sid] = EncodedItem(ops[o].session)]
              /\ bulk' = bulk
              /\ ops'[o].pc = "done"
              /\ ops'[o].cbCount = 1
              /\ ops'[o].cbErr = "undefined"]_vars

\* C17: in an INITIALIZED store, a set or touch on an id that has a record takes effect
\* in one step that leaves a record holding the old or the new payload; a record goes
\* away only by the delete of a destroy or a reap; and a get that reads the id while
\* such a set or touch is in progress calls back with no error and the payload of
\* the record that is there, never with an absent session.
C17_UpdateNeverHidesRecord ==
    [][/\ \A p \in Slots :
            (/\ state = "INITIALIZED"
             /\ ops[p].kind \in {"set", "touch"}
             /\ ops[p].pc = "ready"
             /\ (ops'[p].pc # "ready" \/ ops'[p].reqs # ops[p].reqs)
             /\ items[ops[p].sid].present) =>
                /\ ops'[p].pc = "done"
                /\ items'[ops[p].sid].present
                /\ GetDecoded(items'[ops[p].sid]) \in
                      {GetDecoded(items[ops[p].sid]), JSONparse(JSONstringify(ops[p].session))}
       /\ \A i \in OpIds :
            (items[i].present /\ ~items'[i].present) =>
                \E o \in Slots :
                    /\ ops[o].pc \in {"destroyDelete", "reapBatch"}
                    /\ ops'[o].pc = "done"
                    /\ i \in ops[o].found
       /\ \A o, p \in Slots :
            (/\ state = "INITIALIZED"
             /\ ops[o].kind = "get" /\ ops[o].pc = "ready" /\ ops'[o].pc = "done"
             /\ ops[p].kind \in {"set", "touch"} /\ ops[p].pc = "ready"
             /\ ops[p].sid = ops[o].sid
             /\ items[ops[o].sid].present) =>
                /\ ops'[o].cbErr = "null"
                /\ ops'[o].cbTag = "session"
                /\ ops'[o].cbSession = GetDecoded(items[ops[o].sid])]_vars

\* a get has read the record of an id and called back with its payload while a set
\* or touch on that id, started before the get ended, is still in progress
C17_Witness ==
    \E o, p \in Slots :
        /\ ops[o].kind = "get" /\ ops[o].pc = "done" /\ ops[o].cbTag = "session"
        /\ ops[p].kind \in {"set", "touch"} /\ ops[p].pc = "ready" /\ ~ops[p].alone
        /\ ops[p].sid = ops[o].sid
        /\ items[ops[p].sid].present

\* C18: when the first DescribeTableCommand fails with an error other than
\* ResourceNotFoundException, the error goes to the constructor's catch handler with
\* no CreateTableCommand sent; the handler sets the state to FAIL, and it eventually
\* runs; the provisioner is not started again and sends no request afterwards.
C18_DescribeErrorIsFatal ==
    /\ [][/\ (ctorPc = "describeTable" /\ ctorPc' = "catch") =>
                /\ ctorErr' # NotFound
                /\ createCount = 0 /\ createCount' = 0
                /\ provRuns' = provRuns
          /\ (ctorPc = "describeTable" /\ tableStatus # "NONE" /\ ctorPc' # ctorPc) =>
                ctorPc' \in {"describeTTL", "catch"}
          /\ (ctorPc = "catch" /\ ctorPc' # ctorPc) =>
                /\ state' = "FAIL"
                /\ ctorPc' = "done"
                /\ createCount' = createCount
                /\ provRuns' = provRuns
          /\ ctorPc = "done" =>
                /\ ctorPc' = "done"
                /\ state' = state
                /\ createCount' = createCount
                /\ provRuns' = provRuns
          /\ ctorPc' = "describeTable" => ctorPc \in {"start", "describeTable"}]_vars
    /\ (ctorPc = "catch") ~> (state = "FAIL")

\* provisioning failed on an error other than 'not found' with no CreateTableCommand
\* sent, and an operation invoked afterwards has called back
C18_Witness ==
    /\ state = "FAIL"
    /\ ctorErr \in ProvFaults
    /\ createCount = 0
    /\ ttlUpdates = 0
    /\ provRuns = 1
    /\ \E o \in Slots : ops[o].gate = "rejected" /\ ops[o].pc = "done"

\* C19: once the table has been found, the answer to DescribeTimeToLiveCommand is
\* followed by UpdateTimeToLiveCommand exactly when the status is DISABLED or
\* DISABLING (and by no TTL update for ENABLED or ENABLING), and neither TTL request
\* is followed by a CreateTableCommand.
C19_TtlOnFoundPath ==
    [][/\ (ctorPc = "describeTTL" /\ ctorPc' # ctorPc) =>
             /\ createCount' = createCount
             /\ ttlUpdates' # ttlUpdates =>
                   (ttlStatus \in {"DISABLED", "DISABLING"} /\ ttlUpdates' = ttlUpdates + 1)
             /\ (ttlStatus \in {"DISABLED", "DISABLING"} /\ ctorPc' # "catch") =>
                   (ctorPc' = "updateTTL" /\ ttlUpdates' = ttlUpdates + 1)
       /\ (ctorPc = "updateTTL" /\ ctorPc' # ctorPc) =>
             /\ createCount' = createCount
             /\ ttlUpdates' = ttlUpdates]_vars

\* C20: in the variant, a set or touch that found a record for its id, ran with no
\* other operation and called back without error leaves a record for that id that
\* holds the new payload, whichever of its delete and put takes effect first.
C20_VariantKeepsRecord ==
    [][\A o \in Slots :
          (/\ ops[o].kind \in {"set", "touch"}
           /\ ops[o].found = {ops[o].sid}
           /\ ops[o].alone
           /\ ops[o].pc \in {"variantPut", "variantDelete"}
           /\ ops'[o].pc = "done"
           /\ ops'[o].cbErr = "undefined") =>
              /\ items'[ops[o].sid].present
              /\ GetDecoded(items'[ops[o].sid]) = JSONparse(JSONstringify(ops[o].session))]_vars

\* C21: every record that a batchWrite of reap removes holds, at the moment it is
\* removed, an expireTime that is a number and is less than the clock: no record
\* whose expireTime is null or not yet past is removed, also when a set or touch
\* wrote it after reap's scan.
C21_ReapSparesFreshRecords ==
    [][\A o \in Slots :
          (ops[o].kind = "reap" /\ ops[o].pc = "reapBatch" /\ ops'[o].pc = "done") =>
              /\ \A i \in OpIds :
                    (items[i].present /\ ~items'[i].present) =>
                        /\ items[i].expireTime[1] = "number"
                        /\ items[i].expireTime[2] < now
              /\ bulk' # bulk =>
                    PreloadItem.expireTime[2] < now]_vars

\* C22: when two destroy calls on the same id, the only operations invoked, have
\* both called back and the record of the id was there and has been deleted, one of
\* them has called back without error and the other with the 'Not found session ID'
\* error.
C22_OneDestroySucceeds ==
    \A o, p \in Slots :
        (/\ o # p
         /\ state = "INITIALIZED"
         /\ calls = 2
         /\ ops[o].kind = "destroy" /\ ops[p].kind = "destroy"
         /\ ops[o].sid = ops[p].sid
         /\ ops[o].pc = "done" /\ ops[p].pc = "done"
         /\ hist[ops[o].sid].tag = "deleted") =>
            {ops[o].cbErr, ops[p].cbErr} = {"undefined", "Not found session ID"}

\* C23: an operation that has not ended has not called its callback, and one that
\* has ended has called it exactly once, whether the gate resolved or rejected, a
\* storage request failed, or the callback threw when it was called.
C23_CallbackOnce ==
    \A o \in Slots :
        /\ InProgress(ops[o]) => ops[o].cbCount = 0
        /\ ops[o].pc = "done" => ops[o].cbCount = 1

====
